---------------------------- MODULE Spec2Model ----------------------------
(***************************************************************************)
(* The credential-and-usage ledger of app/upstream.go: the Upstream        *)
(* interface and its two implementations, MemoryUpstream (a map under a    *)
(* sync.RWMutex) and CaddyUpstream (records in a certmagic.Storage, with   *)
(* the storage's per-name lock around Consume's load-modify-store).        *)
(*                                                                         *)
(* Strings are sequences of byte values.  Every call of the interface is   *)
(* made by one of the processes of Procs (a goroutine); a call is a        *)
(* sequence of steps, one per mutex operation, map access or storage       *)
(* call, so that the steps of concurrent calls interleave as the code's    *)
(* do.                                                                     *)
(***************************************************************************)
EXTENDS Integers, Sequences, FiniteSets, TLC

(***************************************************************************)
(* Bounds of the model.                                                    *)
(***************************************************************************)
NumProcs == 2    \* goroutines calling the ledger concurrently
MaxCalls == 3    \* calls of the interface begun in one behaviour
MaxDelta == 1    \* bytes one Consume call reports, nr + nw
MaxRangeCalls == 2    \* calls begun in one behaviour of RangeSpec

\* the <<nr, nw>> of a Consume call
Deltas == {d \in (0..MaxDelta) \X (0..MaxDelta) : d[1] + d[2] = MaxDelta}

(***************************************************************************)
(* Program constants.                                                      *)
(***************************************************************************)
AuthLen == 76     \* const AuthLen in Validate and Consume
HeaderLen == 56   \* trojan.HeaderLen, the length of the array GenKey fills

(***************************************************************************)
(* base64.StdEncoding.EncodeToString: the standard alphabet, padded with   *)
(* '='.  Every 3 input bytes give 4 output characters.                     *)
(***************************************************************************)
encodeStd(i) ==
    IF i < 26 THEN 65 + i
    ELSE IF i < 52 THEN 97 + (i - 26)
    ELSE IF i < 62 THEN 48 + (i - 52)
    ELSE IF i = 62 THEN 43
    ELSE 47

PadChar == 61

EncodeToString(src) ==
    LET n == Len(src)
        groups == (n + 2) \div 3
        byte(i) == IF i <= n THEN src[i] ELSE 0
        val(g) == byte(3 * g + 1) * 65536 + byte(3 * g + 2) * 256 + byte(3 * g + 3)
        sextet(g, j) == (val(g) \div (64 ^ (3 - j))) % 64
        char(g, j) ==
            IF j >= 2 /\ 3 * g + j > n THEN PadChar ELSE encodeStd(sextet(g, j))
    IN  [x \in 1..(4 * groups) |-> char((x - 1) \div 4, (x - 1) % 4)]

(***************************************************************************)
(* trojan.GenKey: the hexadecimal SHA-224 digest of the secret, HeaderLen  *)
(* bytes.  The digests of the model's two secrets are tabulated.           *)
(***************************************************************************)
Secret1 == <<97>>
Secret2 == <<98>>
Secrets == {Secret1, Secret2}

GenKey(s) ==
    IF s = Secret1
    THEN <<97,98,100,51,55,53,51,52,99,55,100,57,97,50,101,102,98,57,52,54,53,
           100,101,57,51,49,99,100,55,48,53,53,102,102,100,98,56,56,55,57,53,
           54,51,97,101,57,56,48,55,56,100,54,100,54,100,53>>
    ELSE <<99,54,56,49,101,49,56,98,56,49,101,100,97,102,50,98,54,54,100,100,
           50,50,51,55,54,55,51,52,100,98,97,53,57,57,50,101,51,54,50,98,99,
           51,102,57,49,97,98,50,50,53,56,53,52,99,49,55>>

\* b := [trojan.HeaderLen]byte{}; trojan.GenKey(s, b[:]); the string of b[:]
KeyOfSecret(s) ==
    LET d == GenKey(s)
    IN  [i \in 1..HeaderLen |-> IF i <= Len(d) THEN d[i] ELSE 0]


(***************************************************************************)
(* The strings the callers pass: a raw secret, its derived key (the        *)
(* HeaderLen bytes of GenKey) and the base64 form of the derived key       *)
(* (AuthLen characters); Secret2 is a secret that is never added.          *)
(***************************************************************************)
Derived1 == KeyOfSecret(Secret1)
Canon1 == EncodeToString(Derived1)
AddSecrets == {Secret1}
KeyArgs == {Secret1, Derived1, Canon1}
ValidateArgs == KeyArgs \cup {Secret2}

\* EncodeToString on the strings of the model, evaluated once
EncodeTable == [x \in ValidateArgs |-> EncodeToString(x)]
Encode(k) == EncodeTable[k]

Prefix == <<116, 114, 111, 106, 97, 110, 47>>    \* u.Prefix = "trojan/"

\* the key AddKey and DelKey use: no length test
MemoryAddKeyName(k) == Encode(k)
CaddyAddKeyName(k) == Prefix \o Encode(k)

\* the key Validate and Consume use: a string of AuthLen bytes is taken as is
\* (a Validate and Consume that encode whatever they are given)
MemoryKeyAlwaysEncoded(k) == Encode(k)
MemoryKey(k) == IF Len(k) # AuthLen THEN Encode(k) ELSE k
\* (the length test made against the length of the derived key)
CaddyKeyHeaderLen(k) == IF Len(k) = HeaderLen THEN Prefix \o k ELSE Prefix \o Encode(k)
CaddyKey(k) == IF Len(k) = AuthLen THEN Prefix \o k ELSE Prefix \o Encode(k)

(***************************************************************************)
(* Traffic and its JSON form.  A stored value is either a JSON object, a   *)
(* set of <<member, number>> pairs, or bytes that are not JSON.            *)
(***************************************************************************)
Traffic(up, down) == [Up |-> up, Down |-> down]
ZeroTraffic == Traffic(0, 0)

Marshal(t) == [json |-> TRUE, members |-> {<<"up", t.Up>>, <<"down", t.Down>>}]
Corrupt == [json |-> FALSE, members |-> {}]

Member(b, name, default) ==
    IF \E m \in b.members : m[1] = name
    THEN (CHOOSE m \in b.members : m[1] = name)[2]
    ELSE default

\* json.Unmarshal(b, &t): a member the object lacks leaves t's field as it was
Unmarshal(b, t) == Traffic(Member(b, "up", t.Up), Member(b, "down", t.Down))

(***************************************************************************)
(* State.                                                                  *)
(***************************************************************************)
VARIABLES
    backend,   \* which implementation of Upstream the callers hold
    mm,        \* MemoryUpstream.mm: [nil, m], m a function on the keys present
    mu,        \* MemoryUpstream.mu: [w: the writer or 0, r: the readers]
    store,     \* the storage: a function on the names that exist
    lk,        \* the storage's locks: the set of <<name, holder>>
    pc,        \* where each process is in its call
    fr,        \* each process's call in progress: arguments and locals
    calls,     \* calls begun
    last,      \* history: the call that returned last, and what it returned
    live,      \* history: keys added and not deleted since
    expect     \* history: per key, zero plus the deltas of the Consume calls
               \* that returned nil since the key's record was created

vars == <<backend, mm, mu, store, lk, pc, fr, calls, last, live, expect>>

\* the goroutines that call the ledger
Procs == DOMAIN pc

Backends == {"memory", "caddy"}

NoCall ==
    [op |-> "none", k |-> <<>>, nr |-> 0, nw |-> 0, key |-> <<>>,
     traffic |-> ZeroTraffic, err |-> "nil", ok |-> FALSE, lockErr |-> FALSE,
     clean |-> FALSE, todo |-> {}, out |-> <<>>, listed |-> {}, failed |-> {}]

NewCall(op, k, nr, nw, key) ==
    [NoCall EXCEPT !.op = op, !.k = k, !.nr = nr, !.nw = nw, !.key = key]

NoResult ==
    [op |-> "none", k |-> <<>>, key |-> <<>>, err |-> "nil", ok |-> FALSE,
     lockErr |-> FALSE, out |-> <<>>, listed |-> {}, failed |-> {}]

EmptyMap == [x \in {} |-> ZeroTraffic]
EmptyStore == [x \in {} |-> Corrupt]

Put(f, k, v) == [x \in DOMAIN f \cup {k} |-> IF x = k THEN v ELSE f[x]]
\* (a delete that removes nothing)
RemoveNothing(f, k) == f
\* (a delete that removes every entry)
RemoveAll(f, k) == [x \in {} |-> f[x]]
Remove(f, k) == [x \in DOMAIN f \ {k} |-> f[x]]

\* What the storage may hold when the module is provisioned: nothing, or a
\* record of the user that is not JSON.
InitStores == {EmptyStore, Put(EmptyStore, Prefix \o Canon1, Corrupt)}

Init ==
    /\ backend \in Backends
    /\ mu = [w |-> 0, r |-> {}]
    /\ lk = {}
    /\ pc = [p \in 1..NumProcs |-> "idle"]
    /\ fr = [p \in 1..NumProcs |-> NoCall]
    /\ calls = 0
    /\ last = NoResult
    /\ expect = EmptyMap
    /\ IF backend = "memory"
       THEN /\ mm \in {[nil |-> n, m |-> EmptyMap] : n \in BOOLEAN}
            /\ store = EmptyStore
       ELSE /\ mm = [nil |-> TRUE, m |-> EmptyMap]
            /\ store \in InitStores
    /\ live = DOMAIN store

(***************************************************************************)
(* Calls and returns, with the history they leave.                         *)
(***************************************************************************)
IsAdd(f) == f.op \in {"Add", "AddKey"}
IsDel(f) == f.op \in {"Del", "DelKey"}
InFlight(q, op, key) == fr[q].op = op /\ fr[q].key = key
ConsumeInFlight(key) == \E q \in Procs : InFlight(q, "Consume", key)
AddInFlight(key) == \E q \in Procs : IsAdd(fr[q]) /\ fr[q].key = key

\* Goroutines have no identity: of the idle ones, the first makes the call.
CanCall(p, b) ==
    /\ pc[p] = "idle"
    /\ \A q \in Procs : q < p => pc[q] # "idle"
    /\ backend = b
    /\ calls < MaxCalls

\* p begins a call.  An Add makes its key live, and a Del of the key that is
\* in progress no longer counts as following the Add.
Begin(p, label, frame) ==
    /\ pc' = [pc EXCEPT ![p] = label]
    /\ fr' = [q \in Procs |->
                IF q = p
                THEN [frame EXCEPT !.clean = IsDel(frame) /\ ~AddInFlight(frame.key)]
                ELSE IF IsAdd(frame) /\ IsDel(fr[q]) /\ fr[q].key = frame.key
                     THEN [fr[q] EXCEPT !.clean = FALSE]
                     ELSE fr[q]]
    /\ calls' = calls + 1
    /\ live' = IF IsAdd(frame) THEN live \cup {frame.key} ELSE live
    /\ UNCHANGED <<last, expect>>

Goto(p, label) == pc' = [pc EXCEPT ![p] = label]

Result(f, err) ==
    [op |-> f.op, k |-> f.k, key |-> f.key, err |-> err, ok |-> f.ok,
     lockErr |-> f.lockErr, out |-> f.out, listed |-> f.listed,
     failed |-> f.failed]

\* the call returns err; its locals are gone
Return(p, err) ==
    /\ pc' = [pc EXCEPT ![p] = "idle"]
    /\ fr' = [fr EXCEPT ![p] = NoCall]
    /\ last' = Result(fr[p], err)
    /\ live' = IF IsDel(fr[p]) /\ err = "nil" /\ fr[p].clean
               THEN live \ {fr[p].key} ELSE live

\* a record of zeros is written under key
Created(key) ==
    expect' = IF ConsumeInFlight(key) THEN Remove(expect, key)
              ELSE Put(expect, key, ZeroTraffic)

\* the record under key is removed
Deleted(key) == expect' = Remove(expect, key)

\* a Consume call returns nil
Consumed(f, err) ==
    expect' = IF err = "nil" /\ f.key \in DOMAIN expect
              THEN Put(expect, f.key,
                       Traffic(expect[f.key].Up + f.nr, expect[f.key].Down + f.nw))
              ELSE expect

(***************************************************************************)
(* certmagic.Storage, as the calls of CaddyUpstream use it.  Exists        *)
(* reports; Store, Load, Delete and Lock may fail, and a failed call       *)
(* changes nothing.  Delete returns an error only when the name is still   *)
(* there as it returns; Load of a name that is absent is an error.         *)
(***************************************************************************)
Exists(name) == name \in DOMAIN store
Locked(name) == \E q \in Procs : <<name, q>> \in lk

(***************************************************************************)
(* CaddyUpstream.AddKey, Add                                               *)
(***************************************************************************)
CaddyUpstream_AddKey(p, k) ==
    /\ CanCall(p, "caddy")
    /\ Begin(p, "ak_exists", NewCall("AddKey", k, 0, 0, CaddyAddKeyName(k)))
    /\ UNCHANGED <<backend, mm, mu, store, lk>>

CaddyUpstream_Add(p, s) ==
    /\ CanCall(p, "caddy")
    /\ Begin(p, "ak_exists", NewCall("Add", s, 0, 0, CaddyAddKeyName(KeyOfSecret(s))))
    /\ UNCHANGED <<backend, mm, mu, store, lk>>

\* if u.Storage.Exists(key) { return nil }
CaddyUpstream_AddKey_Exists(p) ==
    /\ pc[p] = "ak_exists"
    /\ IF Exists(fr[p].key)
       THEN Return(p, "nil")
       ELSE Goto(p, "ak_store") /\ UNCHANGED <<fr, last, live>>
    /\ UNCHANGED <<backend, mm, mu, store, lk, calls, expect>>

\* return u.Storage.Store(key, json.Marshal(&Traffic{0, 0}))
CaddyUpstream_AddKey_Store(p) ==
    /\ pc[p] = "ak_store"
    /\ \/ /\ store' = Put(store, fr[p].key, Marshal(ZeroTraffic))
          /\ Created(fr[p].key)
          /\ Return(p, "nil")
       \/ /\ UNCHANGED <<store, expect>>
          /\ Return(p, "store")
    /\ UNCHANGED <<backend, mm, mu, lk, calls>>

(***************************************************************************)
(* CaddyUpstream.DelKey, Del                                               *)
(***************************************************************************)
CaddyUpstream_DelKey(p, k) ==
    /\ CanCall(p, "caddy")
    /\ Begin(p, "dk_exists", NewCall("DelKey", k, 0, 0, CaddyAddKeyName(k)))
    /\ UNCHANGED <<backend, mm, mu, store, lk>>

CaddyUpstream_Del(p, s) ==
    /\ CanCall(p, "caddy")
    /\ Begin(p, "dk_exists", NewCall("Del", s, 0, 0, CaddyAddKeyName(KeyOfSecret(s))))
    /\ UNCHANGED <<backend, mm, mu, store, lk>>

\* if !u.Storage.Exists(key) { return nil }
CaddyUpstream_DelKey_Exists(p) ==
    /\ pc[p] = "dk_exists"
    /\ IF ~Exists(fr[p].key)
       THEN Return(p, "nil")
       ELSE Goto(p, "dk_delete") /\ UNCHANGED <<fr, last, live>>
    /\ UNCHANGED <<backend, mm, mu, store, lk, calls, expect>>

\* return u.Storage.Delete(key): a name that is gone already is no error
CaddyUpstream_DelKey_Delete(p) ==
    /\ pc[p] = "dk_delete"
    /\ \/ /\ store' = Remove(store, fr[p].key)
          /\ Deleted(fr[p].key)
          /\ Return(p, "nil")
       \/ /\ Exists(fr[p].key)
          /\ UNCHANGED <<store, expect>>
          /\ Return(p, "delete")
    /\ UNCHANGED <<backend, mm, mu, lk, calls>>

(***************************************************************************)
(* CaddyUpstream.Validate: one Exists call                                 *)
(***************************************************************************)
CaddyValidateResult(k) == Exists(CaddyKey(k))

CaddyUpstream_Validate(p, k) ==
    /\ CanCall(p, "caddy")
    /\ last' = [Result(NewCall("Validate", k, 0, 0, CaddyKey(k)), "nil")
                  EXCEPT !.ok = CaddyValidateResult(k)]
    /\ calls' = calls + 1
    /\ UNCHANGED <<backend, mm, mu, store, lk, pc, fr, live, expect>>

(***************************************************************************)
(* CaddyUpstream.Consume                                                   *)
(***************************************************************************)
CaddyUpstream_Consume(p, k, nr, nw) ==
    /\ CanCall(p, "caddy")
    /\ Begin(p, "c_lock", NewCall("Consume", k, nr, nw, CaddyKey(k)))
    /\ UNCHANGED <<backend, mm, mu, store, lk>>

\* u.Storage.Lock(ctx, k): waits for the lock and takes it, or fails; the
\* error it returns is dropped and the call goes on
CaddyUpstream_Consume_Lock(p) ==
    /\ pc[p] = "c_lock"
    /\ \/ /\ ~Locked(fr[p].key)
          /\ lk' = lk \cup {<<fr[p].key, p>>}
          /\ UNCHANGED fr
       \/ /\ UNCHANGED lk
          /\ fr' = [fr EXCEPT ![p].lockErr = TRUE]
    /\ Goto(p, "c_load")
    /\ UNCHANGED <<backend, mm, mu, store, calls, last, live, expect>>

\* (an Unlock written before the last return only: an error return skips it)
CaddyUpstream_Consume_return_unlockLast(p, err) ==
    IF err = "nil"
    THEN /\ Goto(p, "c_unlock")
         /\ fr' = [fr EXCEPT ![p].err = err, ![p].traffic = ZeroTraffic]
         /\ UNCHANGED <<last, live, expect>>
    ELSE Return(p, err) /\ UNCHANGED expect

\* defer u.Storage.Unlock(ctx, k): every return of Consume runs the Unlock
CaddyUpstream_Consume_return(p, err) ==
    /\ Goto(p, "c_unlock")
    /\ fr' = [fr EXCEPT ![p].err = err, ![p].traffic = ZeroTraffic]
    /\ UNCHANGED <<last, live, expect>>

\* (a Load that gives the record of zeros for a name that is absent, as the
\* map of MemoryUpstream does)
CaddyUpstream_Consume_Load_zeroIfAbsent(p) ==
    /\ pc[p] = "c_load"
    /\ Goto(p, "c_store")
    /\ fr' = [fr EXCEPT ![p].traffic =
                LET t == IF Exists(fr[p].key) /\ store[fr[p].key].json
                         THEN Unmarshal(store[fr[p].key], ZeroTraffic)
                         ELSE ZeroTraffic
                IN  Traffic(t.Up + fr[p].nr, t.Down + fr[p].nw)]
    /\ UNCHANGED <<last, live, expect>>
    /\ UNCHANGED <<backend, mm, mu, store, lk, calls>>

\* b, err := u.Storage.Load(ctx, k); json.Unmarshal(b, &traffic);
\* traffic.Up += nr; traffic.Down += nw
CaddyUpstream_Consume_Load(p) ==
    /\ pc[p] = "c_load"
    /\ \/ /\ Exists(fr[p].key)
          /\ IF store[fr[p].key].json
             THEN /\ Goto(p, "c_store")
                  /\ fr' = [fr EXCEPT ![p].traffic =
                              LET t == Unmarshal(store[fr[p].key], ZeroTraffic)
                              IN  Traffic(t.Up + fr[p].nr, t.Down + fr[p].nw)]
                  /\ UNCHANGED <<last, live, expect>>
             ELSE CaddyUpstream_Consume_return(p, "unmarshal")
       \/ CaddyUpstream_Consume_return(p, "load")
    /\ UNCHANGED <<backend, mm, mu, store, lk, calls>>

\* b, err = json.Marshal(&traffic); return u.Storage.Store(ctx, k, b)
CaddyUpstream_Consume_Store(p) ==
    /\ pc[p] = "c_store"
    /\ \/ /\ store' = Put(store, fr[p].key, Marshal(fr[p].traffic))
          /\ CaddyUpstream_Consume_return(p, "nil")
       \/ /\ UNCHANGED store
          /\ CaddyUpstream_Consume_return(p, "store")
    /\ UNCHANGED <<backend, mm, mu, lk, calls>>

\* the deferred u.Storage.Unlock(ctx, k), then the return.  Unlock of a lock
\* the caller does not hold (its Lock failed) either fails or removes the
\* lock from under its holder, as the storage decides.
CaddyUpstream_Consume_Unlock(p) ==
    /\ pc[p] = "c_unlock"
    /\ IF <<fr[p].key, p>> \in lk
       THEN lk' = lk \ {<<fr[p].key, p>>}
       ELSE \/ UNCHANGED lk
            \/ /\ Locked(fr[p].key)
               /\ lk' = {e \in lk : e[1] # fr[p].key}
    /\ Consumed(fr[p], fr[p].err)
    /\ Return(p, fr[p].err)
    /\ UNCHANGED <<backend, mm, mu, store, calls>>

(***************************************************************************)
(* sync.RWMutex                                                            *)
(***************************************************************************)
\* Lock: the writer excludes other writers and announces itself, which
\* blocks the readers that come after; it has the lock once the readers that
\* were there have left.
WriteLockLabels == {"mak_lock", "mdk_lock", "mc_lock"}
LockAnnounced(p) == mu.w = 0 /\ mu.r # {} /\ mu' = [mu EXCEPT !.w = p]
Lock(p) == mu.w \in {0, p} /\ mu.r = {} /\ mu' = [mu EXCEPT !.w = p]
Unlock(p) == mu' = [mu EXCEPT !.w = 0]
\* (a read lock that is not recorded, so that writers do not wait for it)
RLockUnrecorded(p) == mu.w = 0 /\ mu' = mu
RLock(p) == mu.w = 0 /\ mu' = [mu EXCEPT !.r = @ \cup {p}]
RUnlock(p) == mu' = [mu EXCEPT !.r = @ \ {p}]

\* a write to a nil map panics: the call never returns, its lock stays held
Panic(p) == Goto(p, "panic")

\* a Lock call that finds readers: it waits for them with new readers blocked
RWMutex_Lock_wait(p) ==
    /\ pc[p] \in WriteLockLabels
    /\ LockAnnounced(p)
    /\ UNCHANGED <<backend, mm, store, lk, pc, fr, calls, last, live, expect>>

(***************************************************************************)
(* MemoryUpstream.AddKey, Add                                              *)
(***************************************************************************)
MemoryUpstream_AddKey(p, k) ==
    /\ CanCall(p, "memory")
    /\ Begin(p, "mak_lock", NewCall("AddKey", k, 0, 0, MemoryAddKeyName(k)))
    /\ UNCHANGED <<backend, mm, mu, store, lk>>

MemoryUpstream_Add(p, s) ==
    /\ CanCall(p, "memory")
    /\ Begin(p, "mak_lock", NewCall("Add", s, 0, 0, MemoryAddKeyName(KeyOfSecret(s))))
    /\ UNCHANGED <<backend, mm, mu, store, lk>>

MemoryUpstream_AddKey_Lock(p) ==
    /\ pc[p] = "mak_lock"
    /\ Lock(p)
    /\ Goto(p, "mak_write")
    /\ UNCHANGED <<backend, mm, store, lk, fr, calls, last, live, expect>>

\* u.mm[key] = Traffic{Up: 0, Down: 0}
MemoryUpstream_AddKey_Write(p) ==
    /\ pc[p] = "mak_write"
    /\ IF mm.nil
       THEN Panic(p) /\ UNCHANGED <<mm, expect>>
       ELSE /\ mm' = [mm EXCEPT !.m = Put(@, fr[p].key, ZeroTraffic)]
            /\ Created(fr[p].key)
            /\ Goto(p, "mak_unlock")
    /\ UNCHANGED <<backend, mu, store, lk, fr, calls, last, live>>

MemoryUpstream_AddKey_Unlock(p) ==
    /\ pc[p] = "mak_unlock"
    /\ Unlock(p)
    /\ Return(p, "nil")
    /\ UNCHANGED <<backend, mm, store, lk, calls, expect>>

(***************************************************************************)
(* MemoryUpstream.DelKey, Del                                              *)
(***************************************************************************)
MemoryUpstream_DelKey(p, k) ==
    /\ CanCall(p, "memory")
    /\ Begin(p, "mdk_lock", NewCall("DelKey", k, 0, 0, MemoryAddKeyName(k)))
    /\ UNCHANGED <<backend, mm, mu, store, lk>>

MemoryUpstream_Del(p, s) ==
    /\ CanCall(p, "memory")
    /\ Begin(p, "mdk_lock", NewCall("Del", s, 0, 0, MemoryAddKeyName(KeyOfSecret(s))))
    /\ UNCHANGED <<backend, mm, mu, store, lk>>

MemoryUpstream_DelKey_Lock(p) ==
    /\ pc[p] = "mdk_lock"
    /\ Lock(p)
    /\ Goto(p, "mdk_delete")
    /\ UNCHANGED <<backend, mm, store, lk, fr, calls, last, live, expect>>

\* delete(u.mm, key): nothing happens when the key is absent or the map nil
MemoryUpstream_DelKey_Delete(p) ==
    /\ pc[p] = "mdk_delete"
    /\ mm' = [mm EXCEPT !.m = Remove(@, fr[p].key)]
    /\ Deleted(fr[p].key)
    /\ Goto(p, "mdk_unlock")
    /\ UNCHANGED <<backend, mu, store, lk, fr, calls, last, live>>

MemoryUpstream_DelKey_Unlock(p) ==
    /\ pc[p] = "mdk_unlock"
    /\ Unlock(p)
    /\ Return(p, "nil")
    /\ UNCHANGED <<backend, mm, store, lk, calls, expect>>

(***************************************************************************)
(* MemoryUpstream.Validate                                                 *)
(***************************************************************************)
MemoryValidateResult(k) == MemoryKey(k) \in DOMAIN mm.m

MemoryUpstream_Validate(p, k) ==
    /\ CanCall(p, "memory")
    /\ Begin(p, "mv_rlock", NewCall("Validate", k, 0, 0, MemoryKey(k)))
    /\ UNCHANGED <<backend, mm, mu, store, lk>>

MemoryUpstream_Validate_RLock(p) ==
    /\ pc[p] = "mv_rlock"
    /\ RLock(p)
    /\ Goto(p, "mv_read")
    /\ UNCHANGED <<backend, mm, store, lk, fr, calls, last, live, expect>>

\* _, ok := u.mm[k]
MemoryUpstream_Validate_Read(p) ==
    /\ pc[p] = "mv_read"
    /\ fr' = [fr EXCEPT ![p].ok = MemoryValidateResult(fr[p].k)]
    /\ Goto(p, "mv_runlock")
    /\ UNCHANGED <<backend, mm, mu, store, lk, calls, last, live, expect>>

MemoryUpstream_Validate_RUnlock(p) ==
    /\ pc[p] = "mv_runlock"
    /\ RUnlock(p)
    /\ Return(p, "nil")
    /\ UNCHANGED <<backend, mm, store, lk, calls, expect>>

(***************************************************************************)
(* MemoryUpstream.Consume                                                  *)
(***************************************************************************)
MemoryUpstream_Consume(p, k, nr, nw) ==
    /\ CanCall(p, "memory")
    /\ Begin(p, "mc_lock", NewCall("Consume", k, nr, nw, MemoryKey(k)))
    /\ UNCHANGED <<backend, mm, mu, store, lk>>

MemoryUpstream_Consume_Lock(p) ==
    /\ pc[p] = "mc_lock"
    /\ Lock(p)
    /\ Goto(p, "mc_read")
    /\ UNCHANGED <<backend, mm, store, lk, fr, calls, last, live, expect>>

\* traffic := u.mm[k] (the zero Traffic when k is absent);
\* traffic.Up += nr; traffic.Down += nw
MemoryUpstream_Consume_Read(p) ==
    /\ pc[p] = "mc_read"
    /\ fr' = [fr EXCEPT ![p].traffic =
                LET t == IF fr[p].key \in DOMAIN mm.m THEN mm.m[fr[p].key]
                         ELSE ZeroTraffic
                IN  Traffic(t.Up + fr[p].nr, t.Down + fr[p].nw)]
    /\ Goto(p, "mc_write")
    /\ UNCHANGED <<backend, mm, mu, store, lk, calls, last, live, expect>>

\* u.mm[k] = traffic
MemoryUpstream_Consume_Write(p) ==
    /\ pc[p] = "mc_write"
    /\ IF mm.nil
       THEN Panic(p) /\ UNCHANGED mm
       ELSE /\ mm' = [mm EXCEPT !.m = Put(@, fr[p].key, fr[p].traffic)]
            /\ Goto(p, "mc_unlock")
    /\ UNCHANGED <<backend, mu, store, lk, fr, calls, last, live, expect>>

MemoryUpstream_Consume_Unlock(p) ==
    /\ pc[p] = "mc_unlock"
    /\ Unlock(p)
    /\ Consumed(fr[p], "nil")
    /\ Return(p, "nil")
    /\ UNCHANGED <<backend, mm, store, lk, calls>>

(***************************************************************************)
(* The ledger under concurrent callers.                                    *)
(***************************************************************************)
Next ==
    \/ \E p \in Procs, k \in KeyArgs : CaddyUpstream_AddKey(p, k)
    \/ \E p \in Procs, s \in AddSecrets : CaddyUpstream_Add(p, s)
    \/ \E p \in Procs : CaddyUpstream_AddKey_Exists(p)
    \/ \E p \in Procs : CaddyUpstream_AddKey_Store(p)
    \/ \E p \in Procs, k \in KeyArgs : CaddyUpstream_DelKey(p, k)
    \/ \E p \in Procs, s \in AddSecrets : CaddyUpstream_Del(p, s)
    \/ \E p \in Procs : CaddyUpstream_DelKey_Exists(p)
    \/ \E p \in Procs : CaddyUpstream_DelKey_Delete(p)
    \/ \E p \in Procs, k \in ValidateArgs : CaddyUpstream_Validate(p, k)
    \/ \E p \in Procs, k \in KeyArgs, d \in Deltas :
          CaddyUpstream_Consume(p, k, d[1], d[2])
    \/ \E p \in Procs : CaddyUpstream_Consume_Lock(p)
    \/ \E p \in Procs : CaddyUpstream_Consume_Load(p)
    \/ \E p \in Procs : CaddyUpstream_Consume_Store(p)
    \/ \E p \in Procs : CaddyUpstream_Consume_Unlock(p)
    \/ \E p \in Procs, k \in KeyArgs : MemoryUpstream_AddKey(p, k)
    \/ \E p \in Procs, s \in AddSecrets : MemoryUpstream_Add(p, s)
    \/ \E p \in Procs : MemoryUpstream_AddKey_Lock(p)
    \/ \E p \in Procs : MemoryUpstream_AddKey_Write(p)
    \/ \E p \in Procs : MemoryUpstream_AddKey_Unlock(p)
    \/ \E p \in Procs, k \in KeyArgs : MemoryUpstream_DelKey(p, k)
    \/ \E p \in Procs, s \in AddSecrets : MemoryUpstream_Del(p, s)
    \/ \E p \in Procs : MemoryUpstream_DelKey_Lock(p)
    \/ \E p \in Procs : MemoryUpstream_DelKey_Delete(p)
    \/ \E p \in Procs : MemoryUpstream_DelKey_Unlock(p)
    \/ \E p \in Procs, k \in ValidateArgs : MemoryUpstream_Validate(p, k)
    \/ \E p \in Procs : MemoryUpstream_Validate_RLock(p)
    \/ \E p \in Procs : MemoryUpstream_Validate_Read(p)
    \/ \E p \in Procs : MemoryUpstream_Validate_RUnlock(p)
    \/ \E p \in Procs, k \in KeyArgs, d \in Deltas :
          MemoryUpstream_Consume(p, k, d[1], d[2])
    \/ \E p \in Procs : MemoryUpstream_Consume_Lock(p)
    \/ \E p \in Procs : MemoryUpstream_Consume_Read(p)
    \/ \E p \in Procs : MemoryUpstream_Consume_Write(p)
    \/ \E p \in Procs : MemoryUpstream_Consume_Unlock(p)
    \/ \E p \in Procs : RWMutex_Lock_wait(p)

Spec == Init /\ [][Next]_vars

(***************************************************************************)
(* MemoryUpstream.Range: the callbacks are made under the read lock, one   *)
(* per entry of the map, in the order the map gives them.  fr.out is the   *)
(* sequence of <<key, up, down>> the callback was called with.             *)
(***************************************************************************)
MemoryUpstream_Range(p) ==
    /\ CanCall(p, "memory")
    /\ Begin(p, "mr_rlock", NewCall("Range", <<>>, 0, 0, <<>>))
    /\ UNCHANGED <<backend, mm, mu, store, lk>>

\* u.mu.RLock(); for k, v := range u.mm
MemoryUpstream_Range_RLock(p) ==
    /\ pc[p] = "mr_rlock"
    /\ RLock(p)
    /\ Goto(p, "mr_next")
    /\ fr' = [fr EXCEPT ![p].todo = DOMAIN mm.m, ![p].listed = DOMAIN mm.m]
    /\ UNCHANGED <<backend, mm, store, lk, calls, last, live, expect>>

\* fn(k, v.Up, v.Down), for an entry not visited yet
MemoryUpstream_Range_fn(p) ==
    /\ pc[p] = "mr_next"
    /\ \E k \in fr[p].todo \cap DOMAIN mm.m :
          fr' = [fr EXCEPT ![p].todo = @ \ {k},
                           ![p].out = Append(@, <<k, mm.m[k].Up, mm.m[k].Down>>)]
    /\ UNCHANGED <<backend, mm, mu, store, lk, pc, calls, last, live, expect>>

\* the loop is over: u.mu.RUnlock()
MemoryUpstream_Range_RUnlock(p) ==
    /\ pc[p] = "mr_next"
    /\ fr[p].todo \cap DOMAIN mm.m = {}
    /\ RUnlock(p)
    /\ Return(p, "nil")
    /\ UNCHANGED <<backend, mm, store, lk, calls, expect>>

(***************************************************************************)
(* CaddyUpstream.Range: List, then for each name listed Load, Unmarshal    *)
(* into the one traffic declared before the loop, and the callback with    *)
(* the name less the prefix.  A Load or an Unmarshal that fails is logged  *)
(* and the loop goes on (fr.failed keeps the names).                       *)
(***************************************************************************)
TrimPrefix(k) ==
    IF Len(k) >= Len(Prefix) /\ SubSeq(k, 1, Len(Prefix)) = Prefix
    THEN SubSeq(k, Len(Prefix) + 1, Len(k))
    ELSE k

CaddyUpstream_Range(p) ==
    /\ CanCall(p, "caddy")
    /\ Begin(p, "r_list", NewCall("Range", <<>>, 0, 0, <<>>))
    /\ UNCHANGED <<backend, mm, mu, store, lk>>

\* keys, err := u.Storage.List(ctx, u.Prefix, false); traffic := Traffic{}
CaddyUpstream_Range_List(p) ==
    /\ pc[p] = "r_list"
    /\ \/ /\ Goto(p, "r_load")
          /\ fr' = [fr EXCEPT ![p].todo = DOMAIN store, ![p].listed = DOMAIN store,
                              ![p].traffic = ZeroTraffic]
          /\ UNCHANGED <<last, live>>
       \/ Return(p, "list")
    /\ UNCHANGED <<backend, mm, mu, store, lk, calls, expect>>

\* (a loop that returns at the first Load or Unmarshal that fails)
CaddyUpstream_Range_skip_abort(p, k) ==
    fr' = [fr EXCEPT ![p].todo = {}, ![p].failed = @ \cup {k}]

\* u.Logger.Error(...); continue
CaddyUpstream_Range_skip(p, k) ==
    fr' = [fr EXCEPT ![p].todo = @ \ {k}, ![p].failed = @ \cup {k}]

\* the traffic the Unmarshal of the loop writes into: what the last one left
RangeTraffic(p) == fr[p].traffic

\* b, err := u.Storage.Load(ctx, k); json.Unmarshal(b, &traffic);
\* fn(strings.TrimPrefix(k, u.Prefix), traffic.Up, traffic.Down)
CaddyUpstream_Range_Load(p) ==
    /\ pc[p] = "r_load"
    /\ \E k \in fr[p].todo :
          \/ CaddyUpstream_Range_skip(p, k)
          \/ /\ Exists(k)
             /\ IF store[k].json
                THEN LET t == Unmarshal(store[k], RangeTraffic(p))
                     IN  fr' = [fr EXCEPT
                                  ![p].todo = @ \ {k},
                                  ![p].traffic = t,
                                  ![p].out = Append(@, <<TrimPrefix(k), t.Up, t.Down>>)]
                ELSE CaddyUpstream_Range_skip(p, k)
    /\ UNCHANGED <<backend, mm, mu, store, lk, pc, calls, last, live, expect>>

\* the loop is over: return
CaddyUpstream_Range_return(p) ==
    /\ pc[p] = "r_load"
    /\ fr[p].todo = {}
    /\ Return(p, "nil")
    /\ UNCHANGED <<backend, mm, mu, store, lk, calls, expect>>


(***************************************************************************)
(* The ledger in use, with Range among the calls.  The behaviours start    *)
(* from a ledger that holds entries already, made by the calls counted as  *)
(* begun before: two users A and B, whose keys are given to AddKey,        *)
(* DelKey, Validate and Consume as the strings Secret1 and Secret2.  The   *)
(* storage may also hold, for B, a record that lacks a member and one      *)
(* that is not JSON.                                                       *)
(***************************************************************************)
RangeArgs == {Secret1, Secret2}
KeyA == Encode(Secret1)
KeyB == Encode(Secret2)

Object(ms) == [json |-> TRUE, members |-> ms]

RangeMaps ==
    {EmptyMap,
     Put(EmptyMap, KeyA, Traffic(1, 2)),
     Put(Put(EmptyMap, KeyA, Traffic(1, 2)), KeyB, Traffic(3, 4))}

RangeStores ==
    {EmptyStore}
    \cup {Put(Put(EmptyStore, Prefix \o KeyA, Marshal(Traffic(1, 2))), Prefix \o KeyB, b) :
            b \in {Marshal(Traffic(3, 4)), Object({<<"up", 3>>}), Object({}), Corrupt}}

RangeInit ==
    /\ backend \in Backends
    /\ mu = [w |-> 0, r |-> {}]
    /\ lk = {}
    /\ pc = [p \in 1..NumProcs |-> "idle"]
    /\ fr = [p \in 1..NumProcs |-> NoCall]
    /\ calls = MaxCalls - MaxRangeCalls
    /\ last = NoResult
    /\ expect = EmptyMap
    /\ IF backend = "memory"
       THEN /\ \/ mm = [nil |-> TRUE, m |-> EmptyMap]
               \/ \E m \in RangeMaps : mm = [nil |-> FALSE, m |-> m]
            /\ store = EmptyStore
            /\ live = DOMAIN mm.m
       ELSE /\ mm = [nil |-> TRUE, m |-> EmptyMap]
            /\ store \in RangeStores
            /\ live = DOMAIN store

RangeNext ==
    \/ \E p \in Procs, k \in RangeArgs : CaddyUpstream_AddKey(p, k)
    \/ \E p \in Procs : CaddyUpstream_AddKey_Exists(p)
    \/ \E p \in Procs : CaddyUpstream_AddKey_Store(p)
    \/ \E p \in Procs, k \in RangeArgs : CaddyUpstream_DelKey(p, k)
    \/ \E p \in Procs : CaddyUpstream_DelKey_Exists(p)
    \/ \E p \in Procs : CaddyUpstream_DelKey_Delete(p)
    \/ \E p \in Procs, k \in RangeArgs : CaddyUpstream_Validate(p, k)
    \/ \E p \in Procs, k \in RangeArgs, d \in Deltas :
          CaddyUpstream_Consume(p, k, d[1], d[2])
    \/ \E p \in Procs : CaddyUpstream_Consume_Lock(p)
    \/ \E p \in Procs : CaddyUpstream_Consume_Load(p)
    \/ \E p \in Procs : CaddyUpstream_Consume_Store(p)
    \/ \E p \in Procs : CaddyUpstream_Consume_Unlock(p)
    \/ \E p \in Procs : CaddyUpstream_Range(p)
    \/ \E p \in Procs : CaddyUpstream_Range_List(p)
    \/ \E p \in Procs : CaddyUpstream_Range_Load(p)
    \/ \E p \in Procs : CaddyUpstream_Range_return(p)
    \/ \E p \in Procs, k \in RangeArgs : MemoryUpstream_AddKey(p, k)
    \/ \E p \in Procs : MemoryUpstream_AddKey_Lock(p)
    \/ \E p \in Procs : MemoryUpstream_AddKey_Write(p)
    \/ \E p \in Procs : MemoryUpstream_AddKey_Unlock(p)
    \/ \E p \in Procs, k \in RangeArgs : MemoryUpstream_DelKey(p, k)
    \/ \E p \in Procs : MemoryUpstream_DelKey_Lock(p)
    \/ \E p \in Procs : MemoryUpstream_DelKey_Delete(p)
    \/ \E p \in Procs : MemoryUpstream_DelKey_Unlock(p)
    \/ \E p \in Procs, k \in RangeArgs : MemoryUpstream_Validate(p, k)
    \/ \E p \in Procs : MemoryUpstream_Validate_RLock(p)
    \/ \E p \in Procs : MemoryUpstream_Validate_Read(p)
    \/ \E p \in Procs : MemoryUpstream_Validate_RUnlock(p)
    \/ \E p \in Procs, k \in RangeArgs, d \in Deltas :
          MemoryUpstream_Consume(p, k, d[1], d[2])
    \/ \E p \in Procs : MemoryUpstream_Consume_Lock(p)
    \/ \E p \in Procs : MemoryUpstream_Consume_Read(p)
    \/ \E p \in Procs : MemoryUpstream_Consume_Write(p)
    \/ \E p \in Procs : MemoryUpstream_Consume_Unlock(p)
    \/ \E p \in Procs : RWMutex_Lock_wait(p)
    \/ \E p \in Procs : MemoryUpstream_Range(p)
    \/ \E p \in Procs : MemoryUpstream_Range_RLock(p)
    \/ \E p \in Procs : MemoryUpstream_Range_fn(p)
    \/ \E p \in Procs : MemoryUpstream_Range_RUnlock(p)

RangeSpec == RangeInit /\ [][RangeNext]_vars

(***************************************************************************)
(* What the callers can observe of the ledger.                             *)
(***************************************************************************)
\* the keys that have an entry (in the storage, with the prefix)
LedgerKeys == IF backend = "memory" THEN DOMAIN mm.m ELSE DOMAIN store

Readable(key) == backend = "memory" \/ store[key].json

\* the counters of an entry
Counters(key) ==
    IF backend = "memory" THEN mm.m[key] ELSE Unmarshal(store[key], ZeroTraffic)

ValidateResult(k) ==
    IF backend = "memory" THEN MemoryValidateResult(k) ELSE CaddyValidateResult(k)

\* the key Add(s) and Del(s) use
NameOfSecret(s) ==
    IF backend = "memory" THEN MemoryAddKeyName(KeyOfSecret(s))
    ELSE CaddyAddKeyName(KeyOfSecret(s))

\* no call that names key is in progress
Quiet(key) == \A p \in Procs : fr[p].key # key

LastAdd == last.op \in {"Add", "AddKey"}
LastDel == last.op \in {"Del", "DelKey"}


(***************************************************************************)
(* C1.  No lost updates: for a key whose record was created and has been   *)
(* neither created again nor deleted since, once no Consume call on it is  *)
(* in progress, its counters are the zeros it was created with plus the    *)
(* nr and nw of every Consume call on it that has returned nil.            *)
(***************************************************************************)
C1_NoLostUpdates ==
    \A key \in DOMAIN expect :
        ~ConsumeInFlight(key) =>
            /\ key \in LedgerKeys
            /\ Readable(key)
            /\ Counters(key) = expect[key]


C3_ConsumeSerializedPerKey ==
    /\ \A p, q \in Procs :
          (p # q /\ pc[p] = "c_store" /\ pc[q] = "c_store") => fr[p].key # fr[q].key
    /\ \A p \in Procs :
          (pc[p] = "c_lock" /\ Locked(fr[p].key)) =>
              \E q \in Procs \ {p} : InFlight(q, "Consume", fr[p].key)

(***************************************************************************)
(* C10.  A failed storage call of Consume is returned as an error: a       *)
(* Consume call whose Lock failed does not go on to load and store, and    *)
(* returns a non-nil error.                                                *)
(***************************************************************************)
C10_LockFailureSurfaces ==
    /\ \A p \in Procs : pc[p] = "c_store" => ~fr[p].lockErr
    /\ (last.op = "Consume" /\ last.lockErr) => last.err # "nil"


(***************************************************************************)
(* C4.  As claimed: once Add(s) has returned nil and no Del of the entry   *)
(* is in progress, Validate returns true for the raw secret s and for the  *)
(* derived key of s, and Validate returns false for a secret never added.  *)
(***************************************************************************)
DelInFlight(key) == \E q \in Procs : IsDel(fr[q]) /\ fr[q].key = key
Added == last.op = "Add" /\ last.err = "nil" /\ ~DelInFlight(last.key)

NameOfKey(k) ==
    IF backend = "memory" THEN MemoryAddKeyName(k) ELSE CaddyAddKeyName(k)

UserKeys == {NameOfKey(s) : s \in AddSecrets} \cup {NameOfSecret(s) : s \in AddSecrets}

NamesUser(f, s) ==
    \/ f.op \in {"Add", "Del"} /\ f.k = s
    \/ f.op \in {"AddKey", "DelKey", "Validate", "Consume"} /\ f.k = KeyOfSecret(s)
    \/ f.op \in {"Validate", "Consume"} /\ f.k = Encode(KeyOfSecret(s))

NamesRaw(f, s) ==
    f.op \in {"AddKey", "DelKey", "Validate", "Consume"} /\ f.k = s

KeyByForm(f) ==
    \A s \in AddSecrets :
        /\ NamesUser(f, s) => f.key = NameOfSecret(s)
        /\ NamesRaw(f, s) => f.key = NameOfKey(s) /\ f.key # NameOfSecret(s)

Ledger == IF backend = "memory" THEN mm.m ELSE store

DelDone ==
    /\ (LastDel /\ last.err = "nil" /\ Quiet(last.key)) =>
          last.key \notin LedgerKeys
    /\ (last.op = "Del" /\ last.err = "nil" /\ Quiet(last.key)) =>
          /\ ~ValidateResult(KeyOfSecret(last.k))
          /\ ~ValidateResult(Encode(KeyOfSecret(last.k)))
    /\ (LastDel /\ last.err # "nil" /\ Quiet(last.key)) =>
          last.key \in LedgerKeys

DelOfAbsent(p) ==
    (IsDel(fr[p]) /\ pc'[p] # pc[p] /\ fr[p].key \notin LedgerKeys) =>
        /\ Ledger' = Ledger
        /\ pc'[p] = "idle" => last'.err = "nil"

C7_EntryLifecycle == LedgerKeys \subseteq live


(***************************************************************************)
(* C8.  Persistent AddKey is idempotent creation: a step of an AddKey or   *)
(* Add of CaddyUpstream whose key is in the storage writes nothing, so     *)
(* the counters Consume has accumulated are not reset by it, whatever      *)
(* other AddKey and Consume calls run beside it.                           *)
(***************************************************************************)
AddKeyOfExisting(p) ==
    (backend = "caddy" /\ IsAdd(fr[p]) /\ pc'[p] # pc[p] /\ Exists(fr[p].key)) =>
        store' = store

C8_AddKeyNeverResets == [][\A p \in Procs : AddKeyOfExisting(p)]_vars


(***************************************************************************)
(* C9.  Counter monotonicity: with Consume deltas that are not negative,   *)
(* in a step that keeps an entry its up and down values do not decrease,   *)
(* unless the step is the write of an Add or AddKey of that key, which     *)
(* sets them to zero.                                                      *)
(***************************************************************************)
HasCounters(key) == key \in LedgerKeys /\ Readable(key)

WriteOfAdd(key) ==
    \E p \in Procs : IsAdd(fr[p]) /\ fr[p].key = key /\ pc'[p] # pc[p]

CountersKept(key) ==
    (HasCounters(key) /\ HasCounters(key)' /\ ~WriteOfAdd(key)) =>
        /\ Counters(key)'.Up >= Counters(key).Up
        /\ Counters(key)'.Down >= Counters(key).Down

C9_CountersMonotone == [][\A key \in LedgerKeys : CountersKept(key)]_vars


(***************************************************************************)
(* C11.  A Consume of CaddyUpstream whose record is absent or is not JSON  *)
(* fails and leaves the storage as it is: the step that loads goes to the  *)
(* return with an error and without a Store, and the return hands that     *)
(* error to the caller with the storage unchanged.  So no entry is         *)
(* created, and Validate of the absent key is still false.                 *)
(***************************************************************************)
NoRecord(key) == ~Exists(key) \/ ~store[key].json

LoadFails(p) ==
    (backend = "caddy" /\ pc[p] = "c_load" /\ pc'[p] # pc[p] /\ NoRecord(fr[p].key)) =>
        /\ store' = store
        /\ pc'[p] = "c_unlock"
        /\ fr'[p].err # "nil"

FailureReturned(p) ==
    (pc[p] = "c_unlock" /\ pc'[p] # pc[p] /\ fr[p].err # "nil") =>
        /\ store' = store
        /\ last'.op = "Consume" /\ last'.err = fr[p].err

C11_ConsumeOfNoRecordFails ==
    [][\A p \in Procs : LoadFails(p) /\ FailureReturned(p)]_vars

\* a Consume of an absent key has returned the Load's error; the key is
\* still absent
C11_Witness ==
    /\ backend = "caddy"
    /\ last.op = "Consume" /\ last.err = "load"
    /\ ~Exists(last.key)
    /\ ~ValidateResult(last.k)


(***************************************************************************)
(* C14.  MemoryUpstream has no failure modes: no call of it aborts, on an  *)
(* instance as the module constructor makes it included, and every call    *)
(* of it that has returned has returned nil.                               *)
(***************************************************************************)
C14_MemoryNeverFails ==
    backend = "memory" =>
        /\ \A p \in Procs : pc[p] # "panic"
        /\ last.err = "nil"

(***************************************************************************)
(* C17.  The argument AddKey was given names the entry it made: once       *)
(* AddKey(k) has returned nil and no Del of the entry is in progress,      *)
(* Validate(k) is true, and a Consume(k, ...) works on the key AddKey(k)   *)
(* uses, whatever the length of k, the AuthLen bytes included.             *)
(***************************************************************************)
C17_SameArgumentSameEntry ==
    /\ (last.op = "AddKey" /\ last.err = "nil" /\ ~DelInFlight(last.key)) =>
          ValidateResult(last.k)
    /\ \A p \in Procs : fr[p].op = "Consume" => fr[p].key = NameOfKey(fr[p].k)


(***************************************************************************)
(* C13.  Range is complete and exact: when a Range that ran with no other  *)
(* call beside it has returned, and no List, Load or Unmarshal of it       *)
(* failed, the callback was called once for each entry of the ledger and   *)
(* for no other key, with the counters of that entry.                      *)
(***************************************************************************)
RangeAlone ==
    /\ last.op = "Range" /\ last.err = "nil"
    /\ calls = MaxCalls - MaxRangeCalls + 1

ReportedKey(key) == IF backend = "memory" THEN key ELSE TrimPrefix(key)

Triples(out) == {out[i] : i \in 1..Len(out)}

EntryTriples ==
    {<<ReportedKey(key), Counters(key).Up, Counters(key).Down>> : key \in LedgerKeys}

C13_RangeCompleteExact ==
    (RangeAlone /\ last.failed = {}) =>
        /\ Len(last.out) = Cardinality(LedgerKeys)
        /\ Triples(last.out) = EntryTriples

(***************************************************************************)
(* C18.  The counters CaddyUpstream.Range gives to the callback for a key  *)
(* are those of the record loaded for that key, a member the record lacks  *)
(* being zero: no value of an entry visited earlier is reported.           *)
(***************************************************************************)
ReportsOwnRecord(p) ==
    (pc[p] = "r_load" /\ Len(fr'[p].out) = Len(fr[p].out) + 1) =>
        LET t == fr'[p].out[Len(fr'[p].out)]
        IN  Traffic(t[2], t[3]) = Unmarshal(store[Prefix \o t[1]], ZeroTraffic)

C18_RangeReportsOwnRecord == [][\A p \in Procs : ReportsOwnRecord(p)]_vars


(***************************************************************************)
(* C16.  CaddyUpstream.Range is best effort per entry: a name whose Load   *)
(* or Unmarshal fails gets no callback and the scan goes on.  While the    *)
(* scan runs, the names listed are those visited, those that failed and    *)
(* those still to come, each in one of the three; when Range has           *)
(* returned, every name listed that did not fail was visited, once.        *)
(***************************************************************************)
Visited(f) == {Prefix \o f.out[i][1] : i \in 1..Len(f.out)}

ScanAccounted(f) ==
    /\ Visited(f) \cup f.failed \cup f.todo = f.listed
    /\ Visited(f) \cap f.failed = {}
    /\ f.todo \cap (Visited(f) \cup f.failed) = {}
    /\ Len(f.out) = Cardinality(Visited(f))

C16_RangeSkipsFailures ==
    backend = "caddy" =>
        /\ \A p \in Procs : pc[p] = "r_load" => ScanAccounted(fr[p])
        /\ (last.op = "Range" /\ last.err = "nil") =>
              /\ Visited(last) = last.listed \ last.failed
              /\ Len(last.out) = Cardinality(Visited(last))

\* a Range has returned that skipped the record that is not JSON and visited
\* the other entry
C16_Witness ==
    /\ backend = "caddy"
    /\ last.op = "Range" /\ last.err = "nil"
    /\ \E key \in last.failed : Exists(key) /\ ~store[key].json
    /\ Len(last.out) = 1

(***************************************************************************)
(* The in-memory ledger alone, used by three goroutines: with a Range      *)
(* scanning and a writer waiting in Lock there is a third to call RLock.   *)
(***************************************************************************)
LockProcs == 1..(NumProcs + 1)

LockInit ==
    /\ backend = "memory"
    /\ mu = [w |-> 0, r |-> {}]
    /\ lk = {}
    /\ pc = [p \in LockProcs |-> "idle"]
    /\ fr = [p \in LockProcs |-> NoCall]
    /\ calls = 0
    /\ last = NoResult
    /\ expect = EmptyMap
    /\ \/ mm = [nil |-> TRUE, m |-> EmptyMap]
       \/ \E m \in RangeMaps : mm = [nil |-> FALSE, m |-> m]
    /\ store = EmptyStore
    /\ live = DOMAIN mm.m

LockNext ==
    \/ \E p \in Procs, k \in RangeArgs : MemoryUpstream_AddKey(p, k)
    \/ \E p \in Procs : MemoryUpstream_AddKey_Lock(p)
    \/ \E p \in Procs : MemoryUpstream_AddKey_Write(p)
    \/ \E p \in Procs : MemoryUpstream_AddKey_Unlock(p)
    \/ \E p \in Procs, k \in RangeArgs : MemoryUpstream_DelKey(p, k)
    \/ \E p \in Procs : MemoryUpstream_DelKey_Lock(p)
    \/ \E p \in Procs : MemoryUpstream_DelKey_Delete(p)
    \/ \E p \in Procs : MemoryUpstream_DelKey_Unlock(p)
    \/ \E p \in Procs, k \in RangeArgs : MemoryUpstream_Validate(p, k)
    \/ \E p \in Procs : MemoryUpstream_Validate_RLock(p)
    \/ \E p \in Procs : MemoryUpstream_Validate_Read(p)
    \/ \E p \in Procs : MemoryUpstream_Validate_RUnlock(p)
    \/ \E p \in Procs, k \in RangeArgs, d \in Deltas :
          MemoryUpstream_Consume(p, k, d[1], d[2])
    \/ \E p \in Procs : MemoryUpstream_Consume_Lock(p)
    \/ \E p \in Procs : MemoryUpstream_Consume_Read(p)
    \/ \E p \in Procs : MemoryUpstream_Consume_Write(p)
    \/ \E p \in Procs : MemoryUpstream_Consume_Unlock(p)
    \/ \E p \in Procs : RWMutex_Lock_wait(p)
    \/ \E p \in Procs : MemoryUpstream_Range(p)
    \/ \E p \in Procs : MemoryUpstream_Range_RLock(p)
    \/ \E p \in Procs : MemoryUpstream_Range_fn(p)
    \/ \E p \in Procs : MemoryUpstream_Range_RUnlock(p)

LockSpec == LockInit /\ [][LockNext]_vars

(***************************************************************************)
(* C15.  MemoryUpstream.Range holds the read lock from before the first    *)
(* callback until after the last.  While a Range scans: no writer is       *)
(* inside its critical section (AddKey, DelKey and Consume wait in Lock),  *)
(* the table has the keys it had when the scan began, and every triple     *)
(* reported so far is an entry of the table as it is now, so all triples   *)
(* of one Range belong to one state of the table.  A Validate or a Range   *)
(* that arrives meanwhile is not held up by the scan itself: if it has to  *)
(* wait in RLock, then a writer is waiting in Lock before it.              *)
(***************************************************************************)
Scanning(p) == pc[p] = "mr_next"
WriterInside == mu.w # 0 /\ pc[mu.w] \notin WriteLockLabels
WriterWaiting == mu.w # 0 /\ pc[mu.w] \in WriteLockLabels
ReaderArrived(q) == pc[q] \in {"mv_rlock", "mr_rlock"}
TableEntry(t) == t[1] \in DOMAIN mm.m /\ Traffic(t[2], t[3]) = mm.m[t[1]]

ScanExcludesWriters(p) ==
    /\ ~WriterInside
    /\ fr[p].listed = DOMAIN mm.m
    /\ \A i \in 1..Len(fr[p].out) : TableEntry(fr[p].out[i])

C15_ScanExcludesWritersOnly ==
    \A p \in Procs : Scanning(p) =>
        /\ ScanExcludesWriters(p)
        /\ \A q \in Procs : (ReaderArrived(q) /\ mu.w # 0) => WriterWaiting

\* a Range has reported an entry, an AddKey, DelKey or Consume waits in Lock
\* for the scan to end, and a Validate or Range that arrived after it waits
C15_Witness ==
    \E p, q \in Procs :
        /\ Scanning(p) /\ Len(fr[p].out) >= 1
        /\ ReaderArrived(q)
        /\ WriterWaiting

\* C15 as the specification states it: while a Range scans, writers are
\* excluded and a Validate or Range that arrives can take the read lock
C15_ScanNeverBlocksReaders ==
    \A p \in Procs : Scanning(p) =>
        /\ ScanExcludesWriters(p)
        /\ \A q \in Procs : ReaderArrived(q) => mu.w = 0

(***************************************************************************)
(* C19.  Frame property, on both backends: a step changes the existence or *)
(* the counters of an entry only if it is a step of an AddKey, DelKey or   *)
(* Consume call on that entry's key.  So no step of Validate or of Range   *)
(* changes the ledger, and a call on key k leaves every other entry as it  *)
(* was.                                                                    *)
(***************************************************************************)
Table == IF backend = "memory" THEN mm.m ELSE store

EntryOf(f, key) == {f[x] : x \in {key} \cap DOMAIN f}

Changed ==
    {key \in DOMAIN Table \cup DOMAIN Table' :
        EntryOf(Table, key) # EntryOf(Table', key)}

WriterOps == {"AddKey", "Add", "DelKey", "Del", "Consume"}

C19_OnlyTheKeyOfTheCallChanges ==
    [][\A key \in Changed :
          \E p \in Procs : /\ fr[p].op \in WriterOps
                           /\ fr[p].key = key
                           /\ pc'[p] # pc[p]]_vars

\* a Consume has raised the counters of its entry from (3, 4) and the other
\* entry is there with the counters (1, 2) it had
C19_Witness ==
    /\ last.op = "Consume" /\ last.err = "nil"
    /\ last.key \in LedgerKeys
    /\ Counters(last.key).Up = 3 + MaxDelta
    /\ \E key \in LedgerKeys : key # last.key /\ Counters(key) = Traffic(1, 2)

(***************************************************************************)
(* The callback of MemoryUpstream.Range runs inside the loop, with the     *)
(* read lock of the ledger held (line 95).  It is the caller's function,   *)
(* and it may call an operation of the ledger it is ranging over: a        *)
(* Validate, which calls u.mu.RLock() again, or an AddKey, DelKey or       *)
(* Consume, which calls u.mu.Lock().  sync.RWMutex is not reentrant.       *)
(***************************************************************************)

\* fn(k, v.Up, v.Down), where fn calls u.Validate
MemoryUpstream_Range_fn_Validate(p) ==
    /\ pc[p] = "mr_next"
    /\ \E k \in fr[p].todo \cap DOMAIN mm.m :
          fr' = [fr EXCEPT ![p].todo = @ \ {k},
                           ![p].out = Append(@, <<k, mm.m[k].Up, mm.m[k].Down>>)]
    /\ Goto(p, "mr_fn_rlock")
    /\ UNCHANGED <<backend, mm, mu, store, lk, calls, last, live, expect>>

\* Validate inside the callback: RLock waits while a writer is waiting or
\* inside; then the lookup and RUnlock, which leave the read lock of Range
\* as it was, and the callback returns
MemoryUpstream_Range_fn_Validate_RLock(p) ==
    /\ pc[p] = "mr_fn_rlock"
    /\ mu.w = 0
    /\ Goto(p, "mr_next")
    /\ UNCHANGED <<backend, mm, mu, store, lk, fr, calls, last, live, expect>>

\* fn(k, v.Up, v.Down), where fn calls u.AddKey, u.DelKey or u.Consume
MemoryUpstream_Range_fn_Write(p) ==
    /\ pc[p] = "mr_next"
    /\ \E k \in fr[p].todo \cap DOMAIN mm.m :
          fr' = [fr EXCEPT ![p].todo = @ \ {k},
                           ![p].out = Append(@, <<k, mm.m[k].Up, mm.m[k].Down>>)]
    /\ Goto(p, "mr_fn_lock")
    /\ UNCHANGED <<backend, mm, mu, store, lk, calls, last, live, expect>>

\* u.mu.Lock() inside the callback: it announces the writer and waits for
\* the readers to leave, of which the Range that called it is one
MemoryUpstream_Range_fn_Write_Lock(p) ==
    /\ pc[p] = "mr_fn_lock"
    /\ LockAnnounced(p)
    /\ UNCHANGED <<backend, mm, store, lk, pc, fr, calls, last, live, expect>>

FairNext ==
    \/ LockNext
    \/ \E p \in Procs : MemoryUpstream_Range_fn_Validate(p)
    \/ \E p \in Procs : MemoryUpstream_Range_fn_Validate_RLock(p)
    \/ \E p \in Procs : MemoryUpstream_Range_fn_Write(p)
    \/ \E p \in Procs : MemoryUpstream_Range_fn_Write_Lock(p)

FairInit ==
    /\ backend = "memory"
    /\ mu = [w |-> 0, r |-> {}]
    /\ lk = {}
    /\ pc = [p \in 1..NumProcs |-> "idle"]
    /\ fr = [p \in 1..NumProcs |-> NoCall]
    /\ calls = 0
    /\ last = NoResult
    /\ expect = EmptyMap
    /\ \/ mm = [nil |-> TRUE, m |-> EmptyMap]
       \/ \E m \in RangeMaps : mm = [nil |-> FALSE, m |-> m]
    /\ store = EmptyStore
    /\ live = DOMAIN mm.m

\* a step of goroutine p inside a call it has made: it moves on in the code
\* of the call, or in the loop of Range
Running(p) ==
    /\ FairNext
    /\ pc[p] # "idle"
    /\ <<pc'[p], fr'[p].todo>> # <<pc[p], fr[p].todo>>

\* the Go scheduler runs every goroutine that can run
FairSpec ==
    /\ FairInit
    /\ [][FairNext]_vars
    /\ \A p \in 1..NumProcs : WF_vars(Running(p))

(***************************************************************************)
(* C20.  Under fair scheduling every call on the in-memory ledger that     *)
(* has not aborted eventually returns.                                     *)
(***************************************************************************)
C20_EveryCallReturns ==
    \A p \in 1..NumProcs :
        (pc[p] \notin {"idle", "panic"}) ~> (pc[p] \in {"idle", "panic"})

(***************************************************************************)
(* The two ledgers side by side.  One caller makes a sequence of calls,    *)
(* each on the in-memory ledger (mm) and on the persistent ledger (store), *)
(* one call at a time, and the storage never fails.  With no other         *)
(* goroutine a call runs from its first statement to its return, so each   *)
(* method is its effect on the ledger and the error it returns.  fr[1]     *)
(* keeps the call as the in-memory ledger answered it, fr[2] as the        *)
(* persistent ledger did.                                                  *)
(***************************************************************************)
Answer(ledger, err) == [ledger |-> ledger, err |-> err]

\* MemoryUpstream.AddKey: u.mm[key] = Traffic{0, 0}; return nil
MemoryRun_AddKey(m, k) ==
    IF m.nil THEN Answer(m, "panic")
    ELSE Answer([m EXCEPT !.m = Put(@, MemoryAddKeyName(k), ZeroTraffic)], "nil")

\* MemoryUpstream.DelKey: delete(u.mm, key); return nil
MemoryRun_DelKey(m, k) ==
    Answer([m EXCEPT !.m = Remove(@, MemoryAddKeyName(k))], "nil")

\* MemoryUpstream.Consume: traffic := u.mm[k]; +=; u.mm[k] = traffic
MemoryRun_Consume(m, k, nr, nw) ==
    LET key == MemoryKey(k)
        t == IF key \in DOMAIN m.m THEN m.m[key] ELSE ZeroTraffic
    IN  IF m.nil THEN Answer(m, "panic")
        ELSE Answer([m EXCEPT !.m = Put(@, key, Traffic(t.Up + nr, t.Down + nw))],
                    "nil")

\* CaddyUpstream.AddKey: nothing if the name exists, else Store of zeros
CaddyRun_AddKey(st, k) ==
    LET key == CaddyAddKeyName(k)
    IN  IF key \in DOMAIN st THEN Answer(st, "nil")
        ELSE Answer(Put(st, key, Marshal(ZeroTraffic)), "nil")

\* CaddyUpstream.DelKey: nothing if the name is absent, else Delete
CaddyRun_DelKey(st, k) ==
    LET key == CaddyAddKeyName(k)
    IN  IF key \notin DOMAIN st THEN Answer(st, "nil")
        ELSE Answer(Remove(st, key), "nil")

\* CaddyUpstream.Consume: Lock, Load, Unmarshal, +=, Marshal, Store, Unlock
CaddyRun_Consume(st, k, nr, nw) ==
    LET key == CaddyKey(k)
    IN  IF key \notin DOMAIN st THEN Answer(st, "load")
        ELSE IF ~st[key].json THEN Answer(st, "unmarshal")
        ELSE LET t == Unmarshal(st[key], ZeroTraffic)
             IN  Answer(Put(st, key, Marshal(Traffic(t.Up + nr, t.Down + nw))),
                        "nil")

\* the caller makes the next call once the last has returned on both ledgers;
\* after a panic with the write lock held no call on the in-memory ledger
\* returns
BothReturned == fr[1].err # "panic" /\ calls < MaxCalls

Both(op, k, nr, nw, ma, ca) ==
    /\ BothReturned
    /\ mm' = ma.ledger
    /\ store' = ca.ledger
    /\ fr' = [fr EXCEPT
                ![1] = [NewCall(op, k, nr, nw, <<>>) EXCEPT !.err = ma.err],
                ![2] = [NewCall(op, k, nr, nw, <<>>) EXCEPT !.err = ca.err]]
    /\ calls' = calls + 1
    /\ UNCHANGED <<backend, mu, lk, pc, last, live, expect>>

Both_AddKey(k) ==
    Both("AddKey", k, 0, 0, MemoryRun_AddKey(mm, k), CaddyRun_AddKey(store, k))

Both_Add(s) ==
    Both("Add", s, 0, 0, MemoryRun_AddKey(mm, KeyOfSecret(s)),
         CaddyRun_AddKey(store, KeyOfSecret(s)))

Both_DelKey(k) ==
    Both("DelKey", k, 0, 0, MemoryRun_DelKey(mm, k), CaddyRun_DelKey(store, k))

Both_Del(s) ==
    Both("Del", s, 0, 0, MemoryRun_DelKey(mm, KeyOfSecret(s)),
         CaddyRun_DelKey(store, KeyOfSecret(s)))

Both_Consume(k, nr, nw) ==
    Both("Consume", k, nr, nw, MemoryRun_Consume(mm, k, nr, nw),
         CaddyRun_Consume(store, k, nr, nw))

\* both ledgers start empty; the in-memory one is as its constructor leaves
\* it, or with its map made
EquivInit ==
    /\ backend = "memory"
    /\ mu = [w |-> 0, r |-> {}]
    /\ lk = {}
    /\ pc = [p \in 1..NumProcs |-> "idle"]
    /\ fr = [p \in 1..NumProcs |-> NoCall]
    /\ calls = 0
    /\ last = NoResult
    /\ expect = EmptyMap
    /\ mm \in {[nil |-> n, m |-> EmptyMap] : n \in BOOLEAN}
    /\ store = EmptyStore
    /\ live = {}

EquivNext ==
    \/ \E k \in KeyArgs : Both_AddKey(k)
    \/ \E s \in AddSecrets : Both_Add(s)
    \/ \E k \in KeyArgs : Both_DelKey(k)
    \/ \E s \in AddSecrets : Both_Del(s)
    \/ \E k \in KeyArgs, d \in Deltas : Both_Consume(k, d[1], d[2])

EquivSpec == EquivInit /\ [][EquivNext]_vars

\* what Validate(k) returns on each ledger
MemoryValidate(k) == MemoryKey(k) \in DOMAIN mm.m
CaddyValidate(k) == CaddyKey(k) \in DOMAIN store

\* the triples Range hands to its callback on each ledger.  Every record of
\* the storage was written by Marshal here, so Unmarshal sets both fields
\* whatever the traffic held before.
MemoryTriples == {<<key, mm.m[key].Up, mm.m[key].Down>> : key \in DOMAIN mm.m}
CaddyTriples ==
    {<<TrimPrefix(key), Unmarshal(store[key], ZeroTraffic).Up,
       Unmarshal(store[key], ZeroTraffic).Down>> :
        key \in {x \in DOMAIN store : store[x].json}}

(***************************************************************************)
(* C12.  Driven by the same sequence of calls from empty, the two ledgers  *)
(* give the same outcome for the last call, the same Validate result for   *)
(* every key and the same triples to Range.                                *)
(***************************************************************************)
C12_BackendsAgree ==
    /\ fr[1].err = fr[2].err
    /\ \A k \in ValidateArgs : MemoryValidate(k) = CaddyValidate(k)
    /\ MemoryTriples = CaddyTriples

=============================================================================
